---------------------------- MODULE Spec2Model ----------------------------
(***************************************************************************)
(* Model of tools/copy_aprinter_srcs.py: the closure resolver              *)
(* (collect_files, process_pending_files, process_file) and the selective  *)
(* mirror (copy_aprinter_files, mkdir_p) over two directory trees.         *)
(*                                                                         *)
(* A string (a path, a line of a file) is a sequence of tokens; a token is *)
(* a separator ("/", " ", "#", "<", ">"), a word ("include", "aprinter"),  *)
(* a name or a suffix (".h").  A directory tree is a function from node    *)
(* paths (sequences of path segments, <<>> being the root) to nodes.       *)
(***************************************************************************)
EXTENDS Naturals, Sequences, FiniteSets, TLC

\* Most tokens of a path handed to file_is_from_aprinter on its own.
MaxPathLen == 3
\* Most characters of a run of blanks in a line handed to include_regex on
\* its own.
MaxGap == 1
\* Most lines a file of the model holds.
MaxLines == 2
\* Number of successive runs of the tool over the same trees.
MaxRuns == 2

VARIABLES
    src_dir,          \* the project tree (state['src_dir'])
    aprinter_dir,     \* the library tree (state['aprinter_dir'])
    pending_files,    \* state['pending_files']
    processed_files,  \* state['processed_files']
    aprinter_files,   \* copy_aprinter_files: the identifiers still to copy
    pc,               \* position in main: collect, process, copy, done, error
    err,              \* which call raised: "", "resolution", "mirror"
    run,              \* number of the current run
    start_dir,        \* history: the project tree when this run started
    seeds,            \* history: what collect_files added in this run
    reads,            \* history: <<root, identifier>> of every file opened
    copied,           \* history: identifiers copy_aprinter_files has copied
    written,          \* history: node paths of the project tree written
    prev,             \* history: outcome of the previous run
    rescanned,        \* history: identifiers popped when already processed
    arg,              \* the argument of a function applied on its own
    result            \* what that function returned, or NotApplied

vars == <<src_dir, aprinter_dir, pending_files, processed_files,
          aprinter_files, pc, err, run, start_dir, seeds, reads, copied,
          written, prev, rescanned, arg, result>>

---------------------------------------------------------------------------
\* Strings

sep == "/"

\* The element of a set of one element.
The(S) == CHOOSE x \in S : TRUE

Front(s) == SubSeq(s, 1, Len(s) - 1)

Last(s) == s[Len(s)]

startswith(s, prefix) ==
    /\ Len(s) >= Len(prefix)
    /\ SubSeq(s, 1, Len(prefix)) = prefix

endswith(s, suffix) ==
    /\ Len(s) >= Len(suffix)
    /\ SubSeq(s, Len(s) - Len(suffix) + 1, Len(s)) = suffix

\* os.path.join(a, b) for a relative b
path_join(a, b) == IF a = <<>> THEN b ELSE a \o <<sep>> \o b

\* The positions of the separators of a path string.
SepPos(s) == {i \in 1..Len(s) : s[i] = sep}

\* The segments of a path string, split at every separator: segment k lies
\* between separator k - 1 and separator k.
Split(s) ==
    [k \in 1..(Cardinality(SepPos(s)) + 1) |->
        SubSeq(s,
               IF k = 1 THEN 1
               ELSE 1 + CHOOSE i \in SepPos(s) :
                            Cardinality({j \in SepPos(s) : j < i}) = k - 2,
               IF k = Cardinality(SepPos(s)) + 1 THEN Len(s)
               ELSE (CHOOSE i \in SepPos(s) :
                        Cardinality({j \in SepPos(s) : j < i}) = k - 1) - 1)]

\* os.path.dirname: what precedes the last separator
dirname(s) ==
    IF SepPos(s) = {} THEN <<>>
    ELSE SubSeq(s, 1, (CHOOSE i \in SepPos(s) :
                          \A j \in SepPos(s) : j <= i) - 1)

\* os.path.basename: what follows the last separator
basename(s) == Last(Split(s))

---------------------------------------------------------------------------
\* Directory trees

Dir == [kind |-> "dir", data |-> <<>>]

File(content) == [kind |-> "file", data |-> content]

Root == <<>>

\* What a walk from the root along the segments of a path arrives at: each
\* step needs the node it leaves to be a directory; ".." steps to the parent.
RECURSIVE Walk(_, _, _)
Walk(fs, cur, segs) ==
    IF segs = <<>> THEN [ok |-> TRUE, node |-> cur]
    ELSE IF ~(cur \in DOMAIN fs /\ fs[cur].kind = "dir")
    THEN [ok |-> FALSE, node |-> cur]
    ELSE LET s == Head(segs)
             nxt == IF s = <<>> \/ s = <<".">> THEN cur
                    ELSE IF s = <<"..">>
                    THEN (IF cur = Root THEN Root ELSE Front(cur))
                    ELSE Append(cur, s)
         IN  Walk(fs, nxt, Tail(segs))

Resolve(fs, path) ==
    IF path = <<>> THEN [ok |-> TRUE, node |-> Root]
    ELSE Walk(fs, Root, Split(path))

exists(fs, path) ==
    LET r == Resolve(fs, path) IN r.ok /\ r.node \in DOMAIN fs

isdir(fs, path) ==
    LET r == Resolve(fs, path)
    IN  r.ok /\ r.node \in DOMAIN fs /\ fs[r.node].kind = "dir"

isreg(fs, path) ==
    LET r == Resolve(fs, path)
    IN  r.ok /\ r.node \in DOMAIN fs /\ fs[r.node].kind = "file"

\* os.listdir: the names of the entries of a directory
listdir(fs, path) ==
    LET d == Resolve(fs, path).node
    IN  {Last(n) : n \in {m \in DOMAIN fs : m # Root /\ Front(m) = d}}

\* Mutant of ReadFile: a file that cannot be opened reads as empty.
ReadFile_swallow(fs, path) ==
    IF isreg(fs, path)
    THEN [ok |-> TRUE, data |-> fs[Resolve(fs, path).node].data]
    ELSE [ok |-> TRUE, data |-> <<>>]

\* open(full_path, 'rb').read()
ReadFile(fs, path) ==
    IF isreg(fs, path)
    THEN [ok |-> TRUE, data |-> fs[Resolve(fs, path).node].data]
    ELSE [ok |-> FALSE, data |-> <<>>]

Put(fs, node, value) ==
    [n \in DOMAIN fs \cup {node} |-> IF n = node THEN value ELSE fs[n]]

---------------------------------------------------------------------------
\* The include pattern

NoMatch == <<>>

\* Mutant of AfterSpaces: '\s*' for ' *', a tab passes for a space.
AfterSpaces_whitespace(line, i, token) ==
    {k \in (i + 1)..Len(line) :
        line[k] = token /\ \A j \in (i + 1)..(k - 1) : line[j] \in {" ", "\t"}}

\* ' *' then the token: where the token stands, after position i and
\* nothing but spaces
AfterSpaces(line, i, token) ==
    {k \in (i + 1)..Len(line) :
        line[k] = token /\ \A j \in (i + 1)..(k - 1) : line[j] = " "}

\* Mutant of GroupEnd: '(.+)> *$', any path between '<' and '>'.
GroupEnd_any(line, i) ==
    {k \in (i + 2)..Len(line) :
        /\ line[k] = ">"
        /\ \A j \in (k + 1)..Len(line) : line[j] = " "}

\* '(aprinter/.+)> *$' after the '<' at position i: where the '>' stands
GroupEnd(line, i) ==
    {k \in (i + 4)..Len(line) :
        /\ line[i + 1] = "aprinter"
        /\ line[i + 2] = sep
        /\ line[k] = ">"
        /\ \A j \in (k + 1)..Len(line) : line[j] = " "}

\* r'^ *# *include *<(aprinter/.+)> *$' on one line: every group 1 the
\* pattern can match (at most one: each position is determined)
include_groups(line) ==
    UNION {UNION {UNION {{SubSeq(line, open + 1, close - 1) :
                            close \in GroupEnd(line, open)} :
                         open \in AfterSpaces(line, incl, "<")} :
                  incl \in AfterSpaces(line, hash, "include")} :
           hash \in AfterSpaces(line, 0, "#")}

\* group 1 of the match of include_regex on one line, or NoMatch
include_regex(line) ==
    IF include_groups(line) = {} THEN NoMatch
    ELSE CHOOSE m \in include_groups(line) : TRUE

\* Mutant of finditer: search, the first match only.
RECURSIVE finditer_first(_)
finditer_first(content) ==
    IF content = <<>> THEN <<>>
    ELSE LET m == include_regex(Head(content))
         IN  IF m = NoMatch THEN finditer_first(Tail(content)) ELSE <<m>>

\* include_regex.finditer(file_content): group 1 of every match, in order
RECURSIVE finditer(_)
finditer(content) ==
    IF content = <<>> THEN <<>>
    ELSE LET m == include_regex(Head(content))
         IN  (IF m = NoMatch THEN <<>> ELSE <<m>>) \o finditer(Tail(content))

---------------------------------------------------------------------------
\* The program

\* Mutant of file_is_from_aprinter: the prefix without os.sep.
file_is_from_aprinter_no_sep(file_path) == startswith(file_path, <<"aprinter">>)

file_is_from_aprinter(file_path) == startswith(file_path, <<"aprinter", sep>>)

\* Mutant of collect_files: the directory aprinter is walked like any other.
RECURSIVE collect_files_no_skip(_, _)
collect_files_no_skip(fs, dir_path) ==
    UNION {
        LET path == path_join(dir_path, name)
        IN  IF isdir(fs, path) THEN collect_files_no_skip(fs, path)
            ELSE IF isreg(fs, path) /\ endswith(path, <<".h">>)
            THEN {path}
            ELSE {}
        : name \in listdir(fs, dir_path)}

RECURSIVE collect_files(_, _)
collect_files(fs, dir_path) ==
    IF dir_path = <<"aprinter">> THEN {}
    ELSE UNION {
            LET path == path_join(dir_path, name)
            IN  IF isdir(fs, path) THEN collect_files(fs, path)
                ELSE IF isreg(fs, path) /\ endswith(path, <<".h">>)
                THEN {path}
                ELSE {}
            : name \in listdir(fs, dir_path)}

\* Mutant of base_dir: every identifier is read from the project tree.
base_dir_src(file_path) == "src_dir"

\* Mutant of base_dir: the branches of the test are exchanged.
base_dir_swapped(file_path) ==
    IF file_is_from_aprinter(file_path) THEN "src_dir" ELSE "aprinter_dir"

\* process_file: the tree an identifier is read from
base_dir(file_path) ==
    IF file_is_from_aprinter(file_path) THEN "aprinter_dir" ELSE "src_dir"

\* Mutant of is_new: the test forgets processed_files.
is_new_pending_only(inc_path, pending, processed) == inc_path \notin pending

\* process_file: the test guarding pending_files.add(inc_path)
is_new(inc_path, pending, processed) ==
    inc_path \notin pending /\ inc_path \notin processed

\* Mutant of scan_matches: the loop breaks at the first known identifier.
RECURSIVE scan_until_seen(_, _, _)
scan_until_seen(matches, pending, processed) ==
    IF matches = <<>> THEN pending
    ELSE IF Head(matches) \in pending \cup processed THEN pending
    ELSE scan_until_seen(Tail(matches), pending \cup {Head(matches)},
                         processed)

\* Mutant of scan_matches: every match is added, known or not.
RECURSIVE scan_add_all(_, _, _)
scan_add_all(matches, pending, processed) ==
    IF matches = <<>> THEN pending
    ELSE scan_add_all(Tail(matches), pending \cup {Head(matches)}, processed)

\* process_file: the loop over the matches; pending_files when it ends
RECURSIVE scan_matches(_, _, _)
scan_matches(matches, pending, processed) ==
    IF matches = <<>> THEN pending
    ELSE LET inc_path == Head(matches)
         IN  scan_matches(Tail(matches),
                          IF is_new(inc_path, pending, processed)
                          THEN pending \cup {inc_path}
                          ELSE pending,
                          processed)

\* process_file: pending_files when it returns, or the failure of open
process_file(src, aprinter, pending, processed, file_path) ==
    The({IF f.ok
         THEN [ok |-> TRUE,
               pending |-> The({scan_matches(matches, pending, processed) :
                                   matches \in {finditer(f.data)}})]
         ELSE [ok |-> FALSE, pending |-> pending] :
         f \in {ReadFile(IF base_dir(file_path) = "aprinter_dir"
                         THEN aprinter ELSE src,
                         file_path)}})

\* Mutant of pop_rest: the identifier is read from pending_files, not removed.
pop_rest_peek(pending, file_path) == pending

\* process_pending_files: pending_files after pop has returned file_path
pop_rest(pending, file_path) == pending \ {file_path}

\* Mutant of loop_done: while len(pending_files) > 1.
loop_done_off_by_one(pending) == Cardinality(pending) <= 1

\* process_pending_files: the condition that ends the while loop
loop_done(pending) == pending = {}

\* os.mkdir
mkdir(fs, path) ==
    LET r == Resolve(fs, path)
    IN  IF ~r.ok THEN [ok |-> FALSE, errno |-> "ENOENT", fs |-> fs]
        ELSE IF r.node \in DOMAIN fs
        THEN [ok |-> FALSE, errno |-> "EEXIST", fs |-> fs]
        ELSE [ok |-> TRUE, errno |-> "", fs |-> Put(fs, r.node, Dir)]

\* os.makedirs
RECURSIVE makedirs(_, _)
makedirs(fs, name) ==
    LET head == dirname(name)
        made == IF head # <<>> /\ ~exists(fs, head)
                THEN makedirs(fs, head)
                ELSE [ok |-> TRUE, errno |-> "", fs |-> fs]
    IN  IF ~made.ok /\ made.errno # "EEXIST" THEN made
        ELSE mkdir(made.fs, name)

mkdir_p(fs, path) ==
    LET r == makedirs(fs, path)
    IN  IF r.ok THEN r
        ELSE IF r.errno # "EEXIST" \/ ~isdir(r.fs, path) THEN r
        ELSE [ok |-> TRUE, errno |-> "", fs |-> r.fs]

\* shutil.copy(src, dst): into dst when dst is a directory
shutil_copy(from, fs, file_path) ==
    LET data == ReadFile(from, file_path)
        dst == IF isdir(fs, file_path)
               THEN path_join(file_path, basename(file_path))
               ELSE file_path
        r == Resolve(fs, dst)
    IN  IF data.ok /\ r.ok /\ ~isdir(fs, dst)
        THEN [ok |-> TRUE, node |-> r.node,
              fs |-> Put(fs, r.node, File(data.data))]
        ELSE [ok |-> FALSE, node |-> r.node, fs |-> fs]

\* Mutant of copy_next: the loop swallows the exception and goes on.
copy_next_swallow(ok) == "copy"

\* copy_aprinter_files: where one iteration of the loop leaves main; the
\* exception of mkdir_p or shutil.copy is caught nowhere.
copy_next(ok) == IF ok THEN "copy" ELSE "error"

---------------------------------------------------------------------------
\* The trees a run may start from

Str_foo_h == <<"foo", ".h">>
Str_x_h == <<"x", ".h">>
Str_a_h == <<"aprinter", sep, "a", ".h">>
Str_b_h == <<"aprinter", sep, "b", ".h">>
Str_up_x_h == <<"aprinter", sep, "..", sep, "x", ".h">>
Str_n_h == <<"sub", sep, "aprinter", sep, "n", ".h">>

IncA == <<"#", "include", " ", "<">> \o Str_a_h \o <<">">>
IncB == <<" ", "#", " ", "include", "<">> \o Str_b_h \o <<">", " ">>
IncUp == <<"#", "include", " ", "<">> \o Str_up_x_h \o <<">">>
IncVector == <<"#", "include", " ", "<", "vector", ">">>
IncQuoted == <<"#", "include", " ", "\"">> \o Str_b_h \o <<"\"">>

RECURSIVE PickLines(_, _, _)
PickLines(lines, S, i) ==
    IF i > Len(lines) THEN <<>>
    ELSE (IF i \in S THEN <<lines[i]>> ELSE <<>>) \o PickLines(lines, S, i + 1)

\* The contents of at most MaxLines of the given lines, in the given order.
Contents(lines) ==
    {PickLines(lines, S, 1) :
        S \in {T \in SUBSET (1..Len(lines)) : Cardinality(T) <= MaxLines}}

Tree(nodes) ==
    [n \in {Root} \cup {e[1] : e \in nodes} |->
        IF n = Root THEN Dir ELSE (CHOOSE e \in nodes : e[1] = n)[2]]

N_foo_h == <<Str_foo_h>>
N_x_h == <<Str_x_h>>
N_aprinter == <<<<"aprinter">>>>
N_a_h == <<<<"aprinter">>, <<"a", ".h">>>>
N_a_h_a_h == <<<<"aprinter">>, <<"a", ".h">>, <<"a", ".h">>>>
N_b_h == <<<<"aprinter">>, <<"b", ".h">>>>
N_sub == <<<<"sub">>>>
N_sub_aprinter == <<<<"sub">>, <<"aprinter">>>>
N_n_h == <<<<"sub">>, <<"aprinter">>, <<"n", ".h">>>>
N_notes == <<<<"notes", ".txt">>>>

\* What the project tree holds beside foo.h.
ProjectExtras == {
    {},
    \* the copy of aprinter/a.h an earlier run left, now stale
    {<<N_aprinter, Dir>>, <<N_a_h, File(<<IncB>>)>>},
    \* a directory where aprinter/a.h would go
    {<<N_aprinter, Dir>>, <<N_a_h, Dir>>},
    \* a project header x.h
    {<<N_x_h, File(<<IncVector>>)>>},
    \* a directory named aprinter below the top level, and a non-header
    {<<N_sub, Dir>>, <<N_sub_aprinter, Dir>>, <<N_n_h, File(<<IncB>>)>>,
     <<N_notes, File(<<IncA>>)>>},
    \* a regular file named aprinter
    {<<N_aprinter, File(<<>>)>>},
    \* a directory where aprinter/a.h would go, holding a directory a.h
    {<<N_aprinter, Dir>>, <<N_a_h, Dir>>, <<N_a_h_a_h, Dir>>}}

ProjectTrees ==
    {Tree({<<N_foo_h, File(c)>>} \cup extra) :
        c \in Contents(<<IncA, IncB, IncUp, IncQuoted>>),
        extra \in ProjectExtras}

LibraryFiles(node, contents) ==
    {{}} \cup {{<<node, File(c)>>} : c \in contents}

\* The empty function is a library root that is no directory.
LibraryTrees ==
    {<<>>} \cup
    {Tree({<<N_aprinter, Dir>>, <<N_x_h, File(<<>>)>>} \cup a \cup b) :
        a \in LibraryFiles(N_a_h, Contents(<<IncA, IncB, IncVector>>)),
        b \in LibraryFiles(N_b_h, Contents(<<IncA, IncVector>>))}

---------------------------------------------------------------------------
\* main

NoRun == [processed |-> {}, copied |-> {}, tree |-> <<>>]
NotApplied == [applied |-> FALSE]

Init ==
    /\ src_dir \in ProjectTrees
    /\ aprinter_dir \in LibraryTrees
    /\ pending_files = {}
    /\ processed_files = {}
    /\ aprinter_files = {}
    /\ pc = "collect"
    /\ err = ""
    /\ run = 1
    /\ start_dir = src_dir
    /\ seeds = {}
    /\ reads = {}
    /\ copied = {}
    /\ written = {}
    /\ prev = NoRun
    /\ rescanned = {}
    /\ arg = <<>>
    /\ result = NotApplied

\* collect_files(state, '')
CollectFiles ==
    /\ pc = "collect"
    /\ pending_files' = pending_files \cup collect_files(src_dir, <<>>)
    /\ seeds' = collect_files(src_dir, <<>>)
    /\ pc' = "process"
    /\ UNCHANGED <<src_dir, aprinter_dir, processed_files, aprinter_files,
                   err, run, start_dir, reads, copied, written, prev,
                   rescanned, arg, result>>

\* One iteration of the loop of process_pending_files: pop, add, process_file.
ProcessPending ==
    /\ pc = "process"
    /\ ~loop_done(pending_files)
    /\ \E file_path \in pending_files :
        \E r \in {process_file(src_dir, aprinter_dir,
                               pop_rest(pending_files, file_path),
                               processed_files \cup {file_path}, file_path)} :
            /\ processed_files' = processed_files \cup {file_path}
            /\ rescanned' = rescanned \cup ({file_path} \cap processed_files)
            /\ reads' = reads \cup {<<base_dir(file_path), file_path>>}
            /\ pending_files' = r.pending
            /\ pc' = IF r.ok THEN pc ELSE "error"
            /\ err' = IF r.ok THEN err ELSE "resolution"
    /\ UNCHANGED <<src_dir, aprinter_dir, aprinter_files, run, start_dir,
                   seeds, copied, written, prev, arg, result>>

\* process_pending_files returns; copy_aprinter_files filters processed_files.
StartCopy ==
    /\ pc = "process"
    /\ loop_done(pending_files)
    /\ aprinter_files' = {p \in processed_files : file_is_from_aprinter(p)}
    /\ pc' = "copy"
    /\ UNCHANGED <<src_dir, aprinter_dir, pending_files, processed_files,
                   err, run, start_dir, seeds, reads, copied, written, prev,
                   rescanned, arg, result>>

\* One iteration of the loop of copy_aprinter_files.
CopyAprinterFile ==
    /\ pc = "copy"
    /\ \E file_path \in aprinter_files :
        \E made \in {mkdir_p(src_dir, dirname(file_path))} :
            \E c \in {shutil_copy(aprinter_dir, made.fs, file_path)} :
                /\ aprinter_files' = aprinter_files \ {file_path}
                /\ pc' = copy_next(made.ok /\ c.ok)
                /\ err' = IF copy_next(made.ok /\ c.ok) = "error"
                          THEN "mirror" ELSE err
                /\ IF made.ok /\ c.ok
                   THEN /\ src_dir' = c.fs
                        /\ reads' = reads \cup {<<"aprinter_dir", file_path>>}
                        /\ copied' = copied \cup {file_path}
                        /\ written' = written \cup {c.node}
                   ELSE /\ src_dir' = made.fs
                        /\ UNCHANGED <<reads, copied, written>>
    /\ UNCHANGED <<aprinter_dir, pending_files, processed_files, run,
                   start_dir, seeds, prev, rescanned, arg, result>>

\* copy_aprinter_files and main return.
Exit ==
    /\ pc = "copy"
    /\ aprinter_files = {}
    /\ pc' = "done"
    /\ UNCHANGED <<src_dir, aprinter_dir, pending_files, processed_files,
                   aprinter_files, err, run, start_dir, seeds, reads, copied,
                   written, prev, rescanned, arg, result>>

\* The tool is run again on the trees as the finished run left them.
Rerun ==
    /\ pc = "done"
    /\ run < MaxRuns
    /\ prev' = [processed |-> processed_files, copied |-> copied,
                tree |-> src_dir]
    /\ run' = run + 1
    /\ pending_files' = {}
    /\ processed_files' = {}
    /\ aprinter_files' = {}
    /\ pc' = "collect"
    /\ start_dir' = src_dir
    /\ seeds' = {}
    /\ reads' = {}
    /\ copied' = {}
    /\ written' = {}
    /\ rescanned' = {}
    /\ UNCHANGED <<src_dir, aprinter_dir, err, arg, result>>

Next ==
    \/ CollectFiles
    \/ ProcessPending
    \/ StartCopy
    \/ CopyAprinterFile
    \/ Exit
    \/ Rerun

Spec == Init /\ [][Next]_vars

\* The run is one sequential process: the loop of process_pending_files takes
\* its next iteration whenever it has one.
FairSpec == Spec /\ WF_vars(ProcessPending)

---------------------------------------------------------------------------
\* The pure functions, applied on their own to every argument of a bounded set

\* The state of main while a function is applied on its own: nothing runs.
Idle ==
    /\ src_dir = Tree({})
    /\ aprinter_dir = Tree({})
    /\ pending_files = {}
    /\ processed_files = {}
    /\ aprinter_files = {}
    /\ pc = "apply"
    /\ err = ""
    /\ run = 1
    /\ start_dir = src_dir
    /\ seeds = {}
    /\ reads = {}
    /\ copied = {}
    /\ written = {}
    /\ prev = NoRun
    /\ rescanned = {}

UNCHANGED_main ==
    UNCHANGED <<src_dir, aprinter_dir, pending_files, processed_files,
                aprinter_files, pc, err, run, start_dir, seeds, reads, copied,
                written, prev, rescanned>>

PathTokens == {"aprinter", sep, "a", "..", ".h"}

\* Every path string of at most MaxPathLen tokens.
Paths == UNION {[1..n -> PathTokens] : n \in 1..MaxPathLen}

OriginInit == Idle /\ arg \in Paths /\ result = NotApplied

\* file_is_from_aprinter(arg), and base_dir as process_file derives it
ApplyOrigin ==
    /\ pc = "apply"
    /\ arg \in Paths
    /\ result = NotApplied
    /\ result' = [applied |-> TRUE,
                  value |-> file_is_from_aprinter(arg),
                  base_dir |-> base_dir(arg)]
    /\ UNCHANGED arg
    /\ UNCHANGED_main

OriginSpec == OriginInit /\ [][ApplyOrigin]_vars

\* A run of at most MaxGap blanks: spaces and tabs.
Gaps == UNION {[1..n -> {" ", "\t"}] : n \in 0..MaxGap}

\* Lines put together as an include directive is, each part there or not.
Lines ==
    {lead \o hash \o gap1 \o word \o gap2 \o open \o path \o close \o trail :
        lead \in Gaps, hash \in {<<"#">>, <<>>}, gap1 \in Gaps,
        word \in {<<"include">>, <<"import">>}, gap2 \in Gaps,
        open \in {<<"<">>, <<"\"">>},
        path \in {Str_a_h, Str_up_x_h, <<"vector">>, <<"aprinter", sep>>,
                  Str_a_h \o <<">", " ", "<">> \o Str_b_h},
        close \in {<<">">>, <<"\"">>, <<">", sep, sep, "a">>},
        trail \in Gaps}

PatternInit == Idle /\ arg \in Lines /\ result = NotApplied

\* include_regex on the line arg, and finditer on the file of that one line
ApplyPattern ==
    /\ pc = "apply"
    /\ arg \in Lines
    /\ result = NotApplied
    /\ result' = [applied |-> TRUE,
                  value |-> include_regex(arg),
                  found |-> finditer(<<arg>>)]
    /\ UNCHANGED arg
    /\ UNCHANGED_main

PatternSpec == PatternInit /\ [][ApplyPattern]_vars

---------------------------------------------------------------------------
\* Notions the properties are stated in

\* The path string of a node of a tree.
RECURSIVE NodePath(_)
NodePath(n) ==
    IF Len(n) = 1 THEN n[1] ELSE n[1] \o <<sep>> \o NodePath(Tail(n))

\* An identifier lies under the library namespace: aprinter/...
LibraryOrigin(p) == Len(Split(p)) >= 2 /\ Split(p)[1] = <<"aprinter">>

\* The tree implied by an identifier's origin, as this run found it.
OriginTree(p) == IF LibraryOrigin(p) THEN aprinter_dir ELSE start_dir

Backed(p) == isreg(OriginTree(p), p)

\* The identifiers the recognized include directives of a file capture.
IncludesOf(p) ==
    LET f == ReadFile(OriginTree(p), p)
    IN  {include_regex(f.data[i]) : i \in 1..Len(f.data)} \ {NoMatch}

\* S and everything reachable from it through recognized includes.
RECURSIVE Reach(_)
Reach(S) ==
    LET T == S \cup UNION {IncludesOf(p) : p \in S}
    IN  IF T = S THEN S ELSE Reach(T)

\* process_pending_files has returned in this run.
ResolverReturned ==
    \/ pc = "process" /\ pending_files = {}
    \/ pc \in {"copy", "done"}
    \/ pc = "error" /\ err = "mirror"

\* The nodes of the project tree that hold a file this run created or changed.
ChangedFiles ==
    {n \in DOMAIN src_dir :
        /\ src_dir[n].kind = "file"
        /\ (n \notin DOMAIN start_dir \/ start_dir[n] # src_dir[n])}

---------------------------------------------------------------------------
\* C1. Closure completeness: when process_pending_files has returned (so every
\* file it opened existed), every identifier under aprinter/ that is
\* reachable from a seed through recognized includes is in processed_files
\* and file_is_from_aprinter classifies it as library-origin.
C1_ClosureComplete ==
    ResolverReturned =>
        \A p \in Reach(seeds) :
            LibraryOrigin(p) =>
                p \in processed_files /\ file_is_from_aprinter(p)

\* A finished resolution that reached a library file only through another
\* library file.
C1_Witness ==
    /\ pc = "copy"
    /\ \A p \in Reach(seeds) : Backed(p)
    /\ \E p \in processed_files :
        /\ LibraryOrigin(p)
        /\ p \notin UNION {IncludesOf(q) : q \in seeds}

\* C2. No over-collection: every member of processed_files is a seed or is
\* captured by a recognized include directive of a file in processed_files.
C2_NoOverCollection ==
    \A p \in processed_files :
        \/ p \in seeds
        \/ \E q \in processed_files : p \in IncludesOf(q)

\* A finished resolution that scanned a quoted include of aprinter/b.h and a
\* stale project copy of aprinter/a.h naming it, and left aprinter/b.h out.
C2_Witness ==
    /\ pc = "copy"
    /\ Str_a_h \in processed_files
    /\ Str_b_h \notin processed_files
    /\ isreg(start_dir, Str_a_h)
    /\ \E i \in 1..Len(start_dir[N_foo_h].data) :
        start_dir[N_foo_h].data[i] = IncQuoted

\* C3. Termination: the loop of process_pending_files ends, with pending_files
\* empty or by the error of a missing file, whatever pop returns.
C3_Termination == (pc = "process") ~> (pending_files = {} \/ pc = "error")

\* A finished resolution of an include cycle between two library files.
C3_Witness ==
    /\ pc = "copy"
    /\ Str_b_h \in IncludesOf(Str_a_h)
    /\ Str_a_h \in IncludesOf(Str_b_h)
    /\ {Str_a_h, Str_b_h} \subseteq processed_files

\* C4. Mirror result: after a run without error the project tree holds, at
\* the path of every library-origin member of processed_files, a file with
\* the content of the library's file.
C4_MirrorResult ==
    pc = "done" =>
        \A p \in processed_files :
            file_is_from_aprinter(p) =>
                /\ isreg(src_dir, p)
                /\ ReadFile(src_dir, p).data = ReadFile(aprinter_dir, p).data

\* C5. Non-mirroring of project-origin files: none is read from the library
\* root, none is copied, and each has after the run the content it had before.
C5_NonMirroring ==
    /\ \A r \in reads : r[1] = "aprinter_dir" => LibraryOrigin(r[2])
    /\ \A p \in copied : LibraryOrigin(p)
    /\ pc = "done" =>
        \A n \in DOMAIN start_dir :
            (start_dir[n].kind = "file" /\ ~LibraryOrigin(NodePath(n))) =>
                (n \in DOMAIN src_dir /\ src_dir[n] = start_dir[n])

\* C6. Phase ordering: the project tree changes only in the copy phase, with
\* pending_files empty, and processed_files does not change in that phase.
C6_PhaseOrdering ==
    [][/\ src_dir' # src_dir => (pc = "copy" /\ pending_files = {})
       /\ pc = "copy" => processed_files' = processed_files]_vars

\* The mirror in mid-course: one file copied, another still to copy.
C6_Witness ==
    /\ pc = "copy"
    /\ written # {}
    /\ aprinter_files # {}

\* C7. Resolution error: a popped identifier without a backing file under the
\* root of its origin ends the run in the error state, and that run has
\* written nothing in the project tree.
C7_ResolutionError ==
    /\ \A p \in processed_files :
        ~Backed(p) => (pc = "error" /\ err = "resolution")
    /\ (pc = "error" /\ err = "resolution") =>
        (src_dir = start_dir /\ written = {} /\ copied = {})

\* A resolution error after a library file that exists was already resolved.
C7_Witness ==
    /\ pc = "error"
    /\ err = "resolution"
    /\ \E p \in processed_files : LibraryOrigin(p) /\ Backed(p)
    /\ \E p \in processed_files : LibraryOrigin(p) /\ ~Backed(p)

\* C8. Output confinement: every file a run creates or overwrites lies in the
\* project tree strictly under aprinter.
C8_OutputConfinement ==
    \A n \in ChangedFiles : Len(n) >= 2 /\ n[1] = <<"aprinter">>

\* C9. Idempotence: a second run on the trees the first run left ends with the
\* same processed_files, the same copied identifiers and the same project tree.
C9_Idempotence ==
    (pc = "done" /\ run > 1) =>
        /\ processed_files = prev.processed
        /\ copied = prev.copied
        /\ src_dir = prev.tree

\* C10. Order independence: whatever pop returned, processed_files ends as the
\* seeds and every identifier reachable from them through recognized includes.
C10_OrderIndependent == ResolverReturned => processed_files = Reach(seeds)

\* A finished resolution in which several identifiers were pending at once.
C10_Witness ==
    /\ pc = "copy"
    /\ Cardinality(seeds) >= 2
    /\ {Str_a_h, Str_b_h} \subseteq processed_files
    /\ \E q \in seeds : {Str_a_h, Str_b_h} \subseteq IncludesOf(q)


\* The path given as the library root names no directory.
InvalidLibraryRoot == ~isdir(aprinter_dir, <<>>)

\* C11. Configuration error: with a library root that is no directory the run
\* is in the error state before the project tree is listed, before any file
\* is opened and before anything is written.
C11_ConfigurationError ==
    InvalidLibraryRoot =>
        /\ pc \in {"collect", "error"}
        /\ seeds = {}
        /\ reads = {}
        /\ src_dir = start_dir

\* C12. Origin correctness, as the specification words it: file_is_from_aprinter
\* holds of a path exactly when the first segment of the path is aprinter.
C12_FirstSegment ==
    result.applied => (result.value <=> Split(arg)[1] = <<"aprinter">>)

\* C12, amended: file_is_from_aprinter holds of a path exactly when its first
\* segment is aprinter and a separator follows it (the path has a second
\* segment, possibly empty); process_file takes the library root for exactly
\* those paths.
C12_OriginCorrect ==
    result.applied =>
        /\ result.value <=>
              (Len(Split(arg)) >= 2 /\ Split(arg)[1] = <<"aprinter">>)
        /\ result.base_dir = "aprinter_dir" <=> result.value

\* file_is_from_aprinter applied to a path of two segments under aprinter.
C12_Witness ==
    /\ result.applied
    /\ result.value
    /\ Len(Split(arg)) = 2
    /\ Split(arg)[2] # <<>>

\* The identifiers within d includes of a member of S.
RECURSIVE Within(_, _)
Within(S, d) ==
    IF d = 0 THEN S
    ELSE LET W == Within(S, d - 1)
         IN  W \cup UNION {IncludesOf(p) : p \in W}

\* The include-distance of a reachable identifier from the seeds.
Distance(p) ==
    CHOOSE d \in 0..Cardinality(Reach(seeds)) :
        /\ p \in Within(seeds, d)
        /\ d = 0 \/ p \notin Within(seeds, d - 1)

\* C13. Breadth-first traversal: when an identifier has been popped, every
\* reachable identifier at a smaller include-distance from the seeds has been
\* popped and scanned already.
C13_BreadthFirst ==
    \A p \in processed_files :
        \A q \in Reach(seeds) :
            Distance(q) < Distance(p) => q \in processed_files

\* What stands between '<' and '>' when a line is: blanks of W, '#', blanks
\* of W, 'include', at least mingap blanks of W, '<', aprinter/ and at least
\* one more token, '>', blanks of W, end of line.  The '#', the 'include' and
\* the '<' are then the first three tokens that are no blank, the '>' is the
\* last one.
ShapedIds(line, W, mingap) ==
    LET marks == {i \in 1..Len(line) : line[i] \notin W}
        mark(k) == CHOOSE i \in marks :
                       Cardinality({j \in marks : j < i}) = k - 1
        last == CHOOSE i \in marks : \A j \in marks : j <= i
    IN  IF /\ Cardinality(marks) >= 7
           /\ line[mark(1)] = "#"
           /\ line[mark(2)] = "include"
           /\ line[mark(3)] = "<"
           /\ mark(3) - mark(2) - 1 >= mingap
           /\ line[mark(3) + 1] = "aprinter"
           /\ line[mark(3) + 2] = sep
           /\ line[last] = ">"
        THEN {SubSeq(line, mark(3) + 1, last - 1)}
        ELSE {}

C15_Disjoint == pending_files \cap processed_files = {}

\* Two library files that include each other are both processed (the one
\* scanned last named one already processed) and something is still pending.
C15_Witness ==
    /\ pc = "process"
    /\ pending_files # {}
    /\ {Str_a_h, Str_b_h} \subseteq processed_files
    /\ Str_b_h \in IncludesOf(Str_a_h)
    /\ Str_a_h \in IncludesOf(Str_b_h)

\* C16. Scan-once: no identifier is popped when it is already processed, every
\* processed identifier has been opened, and within a run a step neither
\* removes a member of processed_files nor puts one into pending_files.
C16_ScanOnce ==
    [][/\ rescanned' = {}
       /\ \A p \in processed_files' : \E r \in reads' : r[2] = p
       /\ run' = run =>
            /\ processed_files \subseteq processed_files'
            /\ pending_files' \cap processed_files = {}]_vars

\* A finished resolution that scanned a library file which includes itself.
C16_Witness ==
    /\ pc = "copy"
    /\ Str_a_h \in processed_files
    /\ Str_a_h \in IncludesOf(Str_a_h)

\* The nodes of a tree that are regular files with a name ending in .h.
HeaderNodes(fs) ==
    {n \in DOMAIN fs \ {Root} :
        fs[n].kind = "file" /\ endswith(Last(n), <<".h">>)}

\* collect_files(state, '') has returned and nothing has been popped yet.
Seeded == pc = "process" /\ reads = {}

\* C17. Seeding, as the specification words it: the seeds are the headers that lie
\* inside no directory named aprinter, at whatever depth.
C17_AnyDepth ==
    Seeded =>
        /\ pending_files =
              {NodePath(n) : n \in {m \in HeaderNodes(start_dir) :
                  \A i \in 1..(Len(m) - 1) : m[i] # <<"aprinter">>}}
        /\ processed_files = {}

\* C17, amended: the seeds are the headers that do not lie under the
\* directory aprinter at the top of the project tree; a directory named
\* aprinter further down is walked like any other.
C17_Seeding ==
    Seeded =>
        /\ pending_files =
              {NodePath(n) : n \in {m \in HeaderNodes(start_dir) :
                  ~(Len(m) >= 2 /\ m[1] = <<"aprinter">>)}}
        /\ processed_files = {}

\* Seeding of a tree that holds a header under sub/aprinter.
C17_Witness ==
    /\ Seeded
    /\ isdir(start_dir, <<"sub", sep, "aprinter">>)
    /\ Str_n_h \in pending_files

\* C18. Mirror error: a step of the copy loop that takes an identifier and
\* copies nothing ends the run in the error state; nothing happens after the
\* error; and in that state every node written before holds a file with the
\* content of the library file copied there.
C18_MirrorError ==
    [][/\ (pc = "copy" /\ aprinter_files' # aprinter_files
            /\ copied' = copied) => (pc' = "error" /\ err' = "mirror")
       /\ pc # "error"
       /\ (pc' = "error" /\ err' = "mirror") =>
            /\ copied' = copied
            /\ \A n \in written' :
                 /\ n \in DOMAIN src_dir'
                 /\ \E p \in copied' :
                      src_dir'[n] = File(ReadFile(aprinter_dir', p).data)]_vars

\* A copy failed after another identifier was copied and before the last one
\* was taken.
C18_Witness ==
    /\ pc = "error"
    /\ err = "mirror"
    /\ copied # {}
    /\ aprinter_files # {}

\* C19. Origin-resolved reads: after every step, every file the run has
\* opened was opened under the root its identifier's origin implies, and
\* every identifier opened under the library root is captured by a recognized
\* include of a processed file; and no step changes the library tree.  (The
\* captures are those of the trees the run started from: the step that
\* starts another run leaves reads empty.)
C19_OriginReads ==
    [][/\ \A r \in reads' :
            /\ r[1] = IF LibraryOrigin(r[2]) THEN "aprinter_dir" ELSE "src_dir"
            /\ r[1] = "aprinter_dir" =>
                 \E q \in processed_files' : r[2] \in IncludesOf(q)
       /\ aprinter_dir' = aprinter_dir]_vars

\* aprinter/a.h is opened under the library root, in the process phase,
\* while the project tree holds a copy of it from an earlier run.
C19_Witness ==
    /\ pc = "process"
    /\ isreg(start_dir, Str_a_h)
    /\ <<"aprinter_dir", Str_a_h>> \in reads

\* C20. Origins of the two sets: every seed is project-origin and every
\* capture library-origin; the project-origin members of pending_files and
\* processed_files are exactly the seeds, and the library-origin members are
\* exactly the identifiers captured by the scanned files.
C20_OriginsOfSets ==
    LET members == pending_files \cup processed_files
        captured == UNION {IncludesOf(q) : q \in processed_files}
    IN  /\ \A p \in seeds : ~LibraryOrigin(p)
        /\ \A p \in captured : LibraryOrigin(p)
        /\ {p \in members : ~LibraryOrigin(p)} = seeds
        /\ {p \in members : LibraryOrigin(p)} = captured

\* Mid-resolution, with a stale copy under aprinter/ in the project tree (no
\* seed), two seeds, and both a processed and a pending capture.
C20_Witness ==
    /\ pc = "process"
    /\ \E p \in pending_files : LibraryOrigin(p)
    /\ \E p \in processed_files : LibraryOrigin(p)
    /\ \E p \in seeds : p # Str_foo_h

===========================================================================
